---- MODULE Spec2Model ----
(***************************************************************************)
(* Acquisition pipeline of the Observatoire: URL canonicalisation          *)
(* (scripts/collect_urls.py, scripts/remove_duplicates.py), the collector's *)
(* de-duplication index, and the asynchronous fetcher                      *)
(* (scripts/fetch_articles.py) with its per-domain rate limiter, content   *)
(* store and fetch ledger.                                                 *)
(*                                                                         *)
(* A URL is a sequence of one-character strings.  Time is counted in ticks *)
(* of half a second.                                                       *)
(***************************************************************************)
EXTENDS Integers, Sequences, FiniteSets, TLC

(***************************************************************************)
(* Bounds of the model                                                     *)
(***************************************************************************)
\* longest free tail appended to a URL prefix in the canonicaliser inputs
MaxTail == 3
\* longest urls_clean.csv the fetcher is started on
MaxInput == 2
\* number of fetcher processes (main_async) started in one behaviour
MaxRuns == 2
\* last value of the clock
MaxTime == 4
\* largest max_concurrent given to fetch_all_async
MaxConcurrent == 2
\* number of URLs of one domain the rate limiter is exercised with (SpecRate)
RateTasks == 3
\* number of collect_urls runs, of search queries in a run, and of search
\* results the queries of a run return in all
MaxCollects == 1
NumQueries == 2
MaxResults == 2
\* longest of the four files the index is built from (SpecIndex)
MaxIndexRows == 1

(***************************************************************************)
(* Characters and strings                                                  *)
(***************************************************************************)
UpperChars == <<"A","B","C","D","E","F","G","H","I","J","K","L","M",
                "N","O","P","Q","R","S","T","U","V","W","X","Y","Z">>
LowerChars == <<"a","b","c","d","e","f","g","h","i","j","k","l","m",
                "n","o","p","q","r","s","t","u","v","w","x","y","z">>
DigitChars == {"0","1","2","3","4","5","6","7","8","9"}

IsUpper(c) == \E i \in 1..26 : UpperChars[i] = c
IsLower(c) == \E i \in 1..26 : LowerChars[i] = c
\* str.isascii() and str.isalpha() of one character
IsAsciiAlpha(c) == IsUpper(c) \/ IsLower(c)
\* urllib.parse.scheme_chars
IsSchemeChar(c) == IsAsciiAlpha(c) \/ c \in DigitChars \/ c \in {"+", "-", "."}

\* str.lower() on one character, and on a string
LowerChar(c) == IF IsUpper(c) THEN LowerChars[CHOOSE i \in 1..26 : UpperChars[i] = c] ELSE c
UpperChar(c) == IF IsLower(c) THEN UpperChars[CHOOSE i \in 1..26 : LowerChars[i] = c] ELSE c
SwapCaseChar(c) == IF IsUpper(c) THEN LowerChar(c) ELSE UpperChar(c)
Lower(s) == [i \in 1..Len(s) |-> LowerChar(s[i])]

\* str.find(c, start) with 1-based positions; 0 when c does not occur
Find(s, c, start) ==
    IF \E i \in start..Len(s) : s[i] = c
    THEN CHOOSE i \in start..Len(s) : s[i] = c /\ \A j \in start..(i-1) : s[j] # c
    ELSE 0

\* str.endswith('/')
EndsWithSlash(s) == Len(s) > 0 /\ s[Len(s)] = "/"
\* s[:-1]
DropLast(s) == SubSeq(s, 1, Len(s) - 1)
\* s.split(c)[0]
BeforeFirst(s, c) == IF Find(s, c, 1) = 0 THEN s ELSE SubSeq(s, 1, Find(s, c, 1) - 1)

\* whether pat occurs in s at position i
OccursAt(s, pat, i) ==
    /\ i + Len(pat) - 1 <= Len(s)
    /\ \A k \in 1..Len(pat) : s[i + k - 1] = pat[k]

\* str.replace(pat, ""): every non-overlapping occurrence, left to right
RECURSIVE RemoveAll(_, _)
RemoveAll(s, pat) ==
    IF Len(s) = 0 THEN <<>>
    ELSE IF OccursAt(s, pat, 1) THEN RemoveAll(SubSeq(s, Len(pat) + 1, Len(s)), pat)
    ELSE <<s[1]>> \o RemoveAll(Tail(s), pat)

(***************************************************************************)
(* urllib.parse.urlparse, on strings without ';', '[', ']', blanks or      *)
(* control characters (none is in the alphabets used below).  Each step    *)
(* of urlsplit takes what the step before left of the URL in "rest".       *)
(***************************************************************************)
\* i = url.find(':'); a scheme is cut off when the text before ':' starts
\* with a letter and holds scheme characters only; it is lower-cased
SplitScheme(url) ==
    LET i == Find(url, ":", 1)
    IN  IF /\ i > 1
           /\ IsAsciiAlpha(url[1])
           /\ \A k \in 1..(i-1) : IsSchemeChar(url[k])
        THEN [scheme |-> Lower(SubSeq(url, 1, i - 1)), rest |-> SubSeq(url, i + 1, Len(url))]
        ELSE [scheme |-> <<>>, rest |-> url]

\* _splitnetloc(url, 2): the position of the earliest '/', '?' or '#' after
\* the leading '//', or one past the end
NetlocEnd(s) ==
    LET delims == {Find(s, c, 3) : c \in {"/", "?", "#"}} \ {0}
    IN  IF delims = {} THEN Len(s) + 1
        ELSE CHOOSE d \in delims : \A e \in delims : d <= e

\* if url[:2] == '//': netloc, url = _splitnetloc(url, 2)
SplitNetloc(p) ==
    IF Len(p.rest) >= 2 /\ p.rest[1] = "/" /\ p.rest[2] = "/"
    THEN [scheme |-> p.scheme,
          netloc |-> SubSeq(p.rest, 3, NetlocEnd(p.rest) - 1),
          rest |-> SubSeq(p.rest, NetlocEnd(p.rest), Len(p.rest))]
    ELSE [scheme |-> p.scheme, netloc |-> <<>>, rest |-> p.rest]

\* if '#' in url: url, fragment = url.split('#', 1)
SplitFragment(p) ==
    LET h == Find(p.rest, "#", 1)
    IN  [scheme |-> p.scheme, netloc |-> p.netloc,
         fragment |-> IF h = 0 THEN <<>> ELSE SubSeq(p.rest, h + 1, Len(p.rest)),
         rest |-> IF h = 0 THEN p.rest ELSE SubSeq(p.rest, 1, h - 1)]

\* if '?' in url: url, query = url.split('?', 1); what is left is the path
SplitQuery(p) ==
    LET q == Find(p.rest, "?", 1)
    IN  [scheme |-> p.scheme, netloc |-> p.netloc, fragment |-> p.fragment,
         query |-> IF q = 0 THEN <<>> ELSE SubSeq(p.rest, q + 1, Len(p.rest)),
         path |-> IF q = 0 THEN p.rest ELSE SubSeq(p.rest, 1, q - 1)]

urlparse(url) == SplitQuery(SplitFragment(SplitNetloc(SplitScheme(url))))

(***************************************************************************)
(* URLCollector._normalize_url and remove_duplicates.normalize_url         *)
(***************************************************************************)
\* if s.endswith('/'): s = s[:-1]
StripSlash(s) == IF EndsWithSlash(s) THEN DropLast(s) ELSE s

\* f"{parsed.scheme}://{parsed.netloc}{parsed.path}"
SchemeNetlocPath(parsed) == parsed.scheme \o <<":", "/", "/">> \o parsed.netloc \o parsed.path

_normalize_url(url) == StripSlash(SchemeNetlocPath(urlparse(url)))

\* url.split('#')[0].split('?')[0], the trailing slash, lower(); str.strip()
\* removes blanks, which no alphabet below contains
normalize_url(url) ==
    IF url = <<>> THEN <<>>
    ELSE Lower(StripSlash(BeforeFirst(BeforeFirst(url, "#"), "?")))

(***************************************************************************)
(* Configuration and inputs                                                *)
(***************************************************************************)
Https == <<"h","t","t","p","s",":","/","/">>
Www == <<"w","w","w",".">>
LemondeFr == <<"l","e","m","o","n","d","e",".","f","r">>
France24Com == <<"f","r","a","n","c","e","2","4",".","c","o","m">>
LesechosFr == <<"l","e","s","e","c","h","o","s",".","f","r">>
ExampleOrg == <<"e","x","a","m","p","l","e",".","o","r","g">>

\* https://www.lemonde.fr/a?ref=1#x and https://www.lemonde.fr/a/ share a
\* normalized key; https://example.org/c and https://example.org/c/, which
\* share one too, belong to no configured media
UrlA1 == Https \o Www \o LemondeFr \o <<"/","a","?","r","e","f","=","1","#","x">>
UrlA2 == Https \o Www \o LemondeFr \o <<"/","a","/">>
UrlC == Https \o ExampleOrg \o <<"/","c">>
UrlC2 == Https \o ExampleOrg \o <<"/","c","/">>
UrlB == Https \o Www \o LemondeFr \o <<"/","b">>
UrlPool == {UrlA1, UrlA2, UrlB, UrlC, UrlC2}
\* the URLs urls_clean.csv is drawn from when it is given to the fetcher
InputPool == {UrlA1, UrlC}
\* the URLs the search engine may return
SearchPool == {UrlA1, UrlA2, UrlB, UrlC, UrlC2}

\* the contents of config/medias.yml the model is run with: no media, or one
MediasConfigs == {{}, {LemondeFr}}

use_playwright_for == {France24Com, LemondeFr, LesechosFr}

\* domain_delays.get(domain, domain_delays['default']), in ticks of 0.5 s
domain_delays(domain) == IF domain \in {LemondeFr, France24Com} THEN 2 ELSE 1

\* what a file of raw_html/ can hold: nothing at all (no file), a truncated
\* write, or a whole page.  A page is named by the text the fetcher looks for
\* in it: "" is the empty page, "article" a page with no block phrase
Absent == "absent"
Partial == "partial"
None == "None"
BlockPhrases == {"access denied", "acces refuse", "access forbidden"}
Pages == {"", "article"} \cup BlockPhrases

\* the outcomes of session.get(): an exception, or a response
Responses == {"timeout", "client_error", "403", "406", "500", "non_html", "html"}

VARIABLES
    medias,                 \* domains of config/medias.yml
    PLAYWRIGHT_AVAILABLE,   \* whether playwright.async_api was imported
    max_concurrent,         \* argument of fetch_all_async
    urls_clean,             \* data/urls_clean.csv: the url column, in file order
    raw_html,               \* data/raw_html/: what the file of each URL holds
    fetch_log,              \* data/fetch_log.csv: rows [url, status], in file order
    phase,                  \* "idle", or "fetching" while main_async runs
    runs,                   \* number of main_async started so far
    now,                    \* time.time(), in ticks
    domain_last_request,    \* ArticleFetcher.domain_last_request
    urls_to_fetch,          \* the tasks of the run: tasks[i] fetches urls_to_fetch[i]
    pc,                     \* where each task stands
    wake,                   \* the time asyncio.sleep() of a task ends
    completed,              \* nonlocal counters of fetch_all_async
    success_count,
    error_count,
    slots,                  \* history: the times the rate limiter granted, per domain
    requested,              \* history: <<url, strategy>> of every request sent in the run
    log_mark,               \* history: Len(fetch_log) when the run started
    urls_raw,               \* data/urls_raw.csv: rows [url, domain], in file order
    articles_clean,         \* data/articles_clean.csv: the url column
    scores,                 \* data/scores.csv: the url column
    collects,               \* number of collect_urls started so far
    existing_urls,          \* the set collect_urls shares with its worker threads
    results,                \* what _search returned to each query
    c_idx,                  \* the result each query is at, in its for loop
    c_pc,                   \* where each query stands
    c_new,                  \* result_info['new_urls'] of each query
    c_skipped,              \* result_info['skipped_count'] of each query
    new_urls,               \* URLCollector.new_urls
    skipped_urls,           \* URLCollector.skipped_urls
    n_u1, n_u2,             \* canonicaliser: two URLs, and how n_u2 differs from n_u1
    n_rel,
    n_keys,                 \* <<_normalize_url(n_u1), _normalize_url(n_u2)>> once computed
    n_dkeys,                \* <<normalize_url(n_u1), normalize_url(n_u2)>> once computed
    playwright,             \* self.playwright: the driver it refers to, or NoHandle
    browser,                \* self.browser: the browser it refers to, or NoHandle
    live_drivers,           \* the Playwright drivers started and not stopped
    live_browsers,          \* the browsers launched and not closed
    contexts,               \* the open browsing contexts: <<task, browser, call site>>
    pw_step,                \* where each task stands inside _fetch_with_playwright_async
    pw_html                 \* what _fetch_with_playwright_async is about to return

vars == <<medias, PLAYWRIGHT_AVAILABLE, max_concurrent, urls_clean, raw_html, fetch_log,
          phase, runs, now, domain_last_request, urls_to_fetch, pc, wake,
          completed, success_count, error_count, slots, requested, log_mark,
          urls_raw, articles_clean, scores, collects, existing_urls, results, c_idx,
          c_pc, c_new, c_skipped, new_urls, skipped_urls,
          n_u1, n_u2, n_rel, n_keys, n_dkeys,
          playwright, browser, live_drivers, live_browsers, contexts, pw_step, pw_html>>

collectorVars == <<urls_raw, articles_clean, scores, collects, existing_urls, results,
                   c_idx, c_pc, c_new, c_skipped, new_urls, skipped_urls>>
normVars == <<n_u1, n_u2, n_rel, n_keys, n_dkeys>>

configVars == <<medias, PLAYWRIGHT_AVAILABLE, max_concurrent>>
browserVars == <<playwright, browser, live_drivers, live_browsers, contexts, pw_step, pw_html>>
counterVars == <<completed, success_count, error_count>>

(***************************************************************************)
(* ArticleFetcher: helpers                                                 *)
(***************************************************************************)
\* parsed.netloc.replace("www.", "")
netloc_replace(url) == RemoveAll(urlparse(url).netloc, Www)

\* _extract_domain on the URLs of the pool, computed once
DomainTable == [u \in UrlPool |-> netloc_replace(u)]

_extract_domain(url) == DomainTable[url]

Domains == {_extract_domain(u) : u \in UrlPool}

_is_allowed_domain_any(url) == TRUE

_is_allowed_domain(url) ==
    LET domain == _extract_domain(url)
        allowed_domains == medias
    IN  IF allowed_domains # {} THEN domain \in allowed_domains ELSE TRUE

\* the URL's own file raw_html/<md5[:2]>/<md5>.html (MD5 taken as injective)
_get_file_path(url) == url

HasSuccessRow(url) == \E k \in 1..Len(fetch_log) :
    fetch_log[k].url = url /\ fetch_log[k].status = "success"

_is_already_fetched_never(url) == FALSE

_is_already_fetched_by_log(url) == HasSuccessRow(url)

_is_already_fetched(url) == raw_html[_get_file_path(url)] # Absent

\* a ledger in which every logged URL counts as downloaded
_load_fetch_log_as_success ==
    [u \in {fetch_log[k].url : k \in 1..Len(fetch_log)} |->
        [url |-> u, status |-> "success"]]

\* _load_fetch_log: log[row['url']] = row for each row in file order, so the
\* last row of a URL stays
_load_fetch_log ==
    LET logged == {fetch_log[k].url : k \in 1..Len(fetch_log)}
        last(u) == CHOOSE k \in 1..Len(fetch_log) :
                       /\ fetch_log[k].url = u
                       /\ \A j \in (k+1)..Len(fetch_log) : fetch_log[j].url # u
    IN  [u \in logged |-> fetch_log[last(u)]]

\* the row _save_fetch_log appends
LogRow(url, status) == [url |-> url, status |-> status]

Truthy(html) == html # None /\ html # ""

\* a semaphore that never counts its holders
NoneHolding == {}

\* tasks inside "async with semaphore"
Holding == {i \in DOMAIN pc : pc[i] \notin {"waiting", "done"}}

UrlOf(i) == urls_to_fetch[i]
DomainOf(i) == _extract_domain(urls_to_fetch[i])

(***************************************************************************)
(* The fetcher process: main_async -> ArticleFetcher() -> fetch_all_async  *)
(***************************************************************************)
\* lists of at most n URLs of the pool
ListsUpTo(S, n) == UNION {[1..k -> S] : k \in 0..n}

\* a fresh ArticleFetcher and the locals of a fetch_all_async not yet started
NoFetcher ==
    /\ domain_last_request = [d \in Domains |-> 0]
    /\ urls_to_fetch = <<>>
    /\ pc = <<>>
    /\ wake = <<>>
    /\ completed = 0 /\ success_count = 0 /\ error_count = 0
    /\ slots = [d \in Domains |-> <<>>]
    /\ requested = {}
    /\ log_mark = 0

InitConfig ==
    /\ medias \in MediasConfigs
    /\ PLAYWRIGHT_AVAILABLE \in BOOLEAN
    /\ max_concurrent \in 1..MaxConcurrent

\* no collect_urls has run
NoCollector ==
    /\ collects = 0
    /\ existing_urls = {}
    /\ results = <<>> /\ c_idx = <<>> /\ c_pc = <<>> /\ c_new = <<>> /\ c_skipped = <<>>
    /\ new_urls = <<>>
    /\ skipped_urls = 0

\* self.playwright = None, self.browser = None (l.75-76)
NoHandle == 0

\* a fresh ArticleFetcher has no driver and no browser, and none is running
NoBrowser ==
    /\ playwright = NoHandle /\ browser = NoHandle
    /\ live_drivers = {} /\ live_browsers = {} /\ contexts = {}
    /\ pw_step = [i \in 1..MaxInput |-> "idle"]
    /\ pw_html = [i \in 1..MaxInput |-> None]

\* the canonicaliser is not exercised
NoNorm ==
    /\ n_u1 = <<>> /\ n_u2 = <<>> /\ n_rel = "none" /\ n_keys = <<>> /\ n_dkeys = <<>>

\* an empty data/ directory
EmptyData ==
    /\ urls_raw = <<>> /\ articles_clean = <<>> /\ scores = <<>>
    /\ raw_html = [u \in UrlPool |-> Absent]
    /\ fetch_log = <<>>

\* the fetcher, started on a urls_clean.csv it is given
Init ==
    /\ InitConfig
    /\ urls_clean \in ListsUpTo(InputPool, MaxInput)
    /\ EmptyData
    /\ phase = "idle"
    /\ runs = 0
    /\ now = 2
    /\ NoFetcher /\ NoCollector /\ NoNorm /\ NoBrowser

\* the process ends: its memory is gone
EndProcess ==
    /\ phase' = "idle"
    /\ domain_last_request' = [d \in Domains |-> 0]
    /\ urls_to_fetch' = <<>>
    /\ pc' = <<>>
    /\ wake' = <<>>
    /\ completed' = 0 /\ success_count' = 0 /\ error_count' = 0
    /\ slots' = [d \in Domains |-> <<>>]
    /\ requested' = {}
    /\ log_mark' = 0

\* a run that gives up before it creates any task
StartRunAborts ==
    /\ phase = "idle"
    /\ runs < MaxRuns
    /\ runs' = runs + 1
    /\ UNCHANGED <<phase, domain_last_request, urls_to_fetch, pc, wake,
                   counterVars, slots, requested, log_mark>>
    /\ UNCHANGED <<configVars, browserVars, collectorVars, normVars, urls_clean, raw_html, fetch_log, now>>

\* main_async up to the creation of the tasks (fetch_all_async, l.548-625)
StartRun ==
    /\ phase = "idle"
    /\ runs < MaxRuns
    /\ runs' = runs + 1
    /\ LET log == _load_fetch_log
           already_processed == {u \in DOMAIN log : log[u].status = "success"}
           allowed_domains == medias
           Keep(url) == /\ url \notin already_processed
                        /\ (allowed_domains = {} \/ _is_allowed_domain(url))
           todo == SelectSeq(urls_clean, Keep)
       IN  IF Len(todo) = 0
           THEN UNCHANGED <<phase, domain_last_request, urls_to_fetch, pc, wake,
                            counterVars, slots, requested, log_mark>>
           ELSE /\ phase' = "fetching"
                /\ urls_to_fetch' = todo
                /\ pc' = [i \in 1..Len(todo) |-> "waiting"]
                /\ wake' = [i \in 1..Len(todo) |-> 0]
                /\ log_mark' = Len(fetch_log)
                /\ UNCHANGED <<domain_last_request, counterVars, slots, requested>>
    /\ UNCHANGED <<configVars, browserVars, collectorVars, normVars, urls_clean, raw_html, fetch_log, now>>

\* fetch_with_semaphore, after fetch_url_async returned result
Finish(i, result) ==
    /\ pc' = [pc EXCEPT ![i] = "done"]
    /\ success_count' = IF result THEN success_count + 1 ELSE success_count
    /\ error_count' = IF result THEN error_count ELSE error_count + 1

\* the file is written, then _save_fetch_log(url, 'success'); return True
StoreAndLog(i, content) ==
    /\ raw_html' = [raw_html EXCEPT ![_get_file_path(UrlOf(i))] = content]
    /\ fetch_log' = Append(fetch_log, LogRow(UrlOf(i), "success"))
    /\ Finish(i, TRUE)

\* the handler's exception leaves fetch_url_async
LogOnlyRaises(i, status) ==
    /\ fetch_log' = Append(fetch_log, LogRow(UrlOf(i), status))
    /\ UNCHANGED <<raw_html, success_count, error_count>>
    /\ pc' = [pc EXCEPT ![i] = "raised"]

\* the row is written and the headless browser is tried all the same
LogOnlyEscalates(i, status) ==
    /\ fetch_log' = Append(fetch_log, LogRow(UrlOf(i), status))
    /\ UNCHANGED <<raw_html, success_count, error_count>>
    /\ pc' = [pc EXCEPT ![i] = "pw_blocked"]

\* _save_fetch_log(url, status, ...); return False
LogOnly(i, status) ==
    /\ fetch_log' = Append(fetch_log, LogRow(UrlOf(i), status))
    /\ UNCHANGED raw_html
    /\ Finish(i, FALSE)

\* the headless browser first, whatever the domain
GrantAndGoHeadlessFirst(i) ==
    /\ domain_last_request' = [domain_last_request EXCEPT ![DomainOf(i)] = now]
    /\ slots' = [slots EXCEPT ![DomainOf(i)] = Append(@, now)]
    /\ IF PLAYWRIGHT_AVAILABLE
       THEN /\ pc' = [pc EXCEPT ![i] = "pw_first"]
            /\ UNCHANGED requested
       ELSE /\ pc' = [pc EXCEPT ![i] = "get"]
            /\ requested' = requested \cup {<<UrlOf(i), "direct">>}

\* _wait_for_domain_rate_limit, l.305, and what fetch_url_async awaits next
\* (l.321-346): the headless browser for the protected domains, else the GET
GrantAndGo(i) ==
    /\ domain_last_request' = [domain_last_request EXCEPT ![DomainOf(i)] = now]
    /\ slots' = [slots EXCEPT ![DomainOf(i)] = Append(@, now)]
    /\ IF DomainOf(i) \in use_playwright_for /\ PLAYWRIGHT_AVAILABLE
       THEN /\ pc' = [pc EXCEPT ![i] = "pw_first"]
            /\ UNCHANGED requested
       ELSE /\ pc' = [pc EXCEPT ![i] = "get"]
            /\ requested' = requested \cup {<<UrlOf(i), "direct">>}

\* a task gets the semaphore and runs to its first suspension (l.610-615,
\* l.307-319, l.296-303); asyncio wakes the waiters of a semaphore in order
Acquire(i) ==
    /\ phase = "fetching"
    /\ pc[i] = "waiting"
    /\ \A j \in 1..(i-1) : pc[j] # "waiting"
    /\ Cardinality(Holding) < max_concurrent
    /\ completed' = completed + 1
    /\ IF _is_already_fetched(UrlOf(i))
       THEN /\ Finish(i, TRUE)
            /\ UNCHANGED <<domain_last_request, wake, slots, requested>>
       ELSE /\ UNCHANGED <<success_count, error_count>>
            /\ LET delay == domain_delays(DomainOf(i))
                   last_request == domain_last_request[DomainOf(i)]
                   elapsed == now - last_request
               IN  IF elapsed < delay
                   THEN /\ pc' = [pc EXCEPT ![i] = "rate_wait"]
                        /\ wake' = [wake EXCEPT ![i] = now + (delay - elapsed)]
                        /\ UNCHANGED <<domain_last_request, slots, requested>>
                   ELSE /\ GrantAndGo(i)
                        /\ UNCHANGED wake
    /\ UNCHANGED <<configVars, browserVars, collectorVars, normVars, urls_clean, raw_html, fetch_log, phase, runs, now,
                   urls_to_fetch, log_mark>>

\* asyncio.sleep(delay - elapsed) is over (l.303-305)
WakeUp(i) ==
    /\ phase = "fetching"
    /\ pc[i] = "rate_wait"
    /\ now >= wake[i]
    /\ GrantAndGo(i)
    /\ wake' = [wake EXCEPT ![i] = 0]
    /\ UNCHANGED <<configVars, browserVars, collectorVars, normVars, urls_clean, raw_html, fetch_log, phase, runs, now,
                   urls_to_fetch, counterVars, log_mark>>

\* what _fetch_with_playwright_async returns: None (no browser, or an
\* exception) or page.content(); went tells whether page.goto() was reached
PlaywrightOutcomes == {<<html, went>> \in (Pages \cup {None}) \X BOOLEAN : html # None => went}

HeadlessRequest(i, went) == IF went THEN {<<UrlOf(i), "headless">>} ELSE {}

\* l.322-329: the headless browser first; on a falsy result, the GET
PlaywrightFirst(i) ==
    /\ phase = "fetching"
    /\ pc[i] = "pw_first"
    /\ \E o \in PlaywrightOutcomes :
        IF Truthy(o[1])
        THEN /\ StoreAndLog(i, o[1])
             /\ requested' = requested \cup HeadlessRequest(i, o[2])
        ELSE /\ pc' = [pc EXCEPT ![i] = "get"]
             /\ requested' = requested \cup HeadlessRequest(i, o[2])
                                       \cup {<<UrlOf(i), "direct">>}
             /\ UNCHANGED <<raw_html, fetch_log, success_count, error_count>>
    /\ UNCHANGED <<configVars, browserVars, collectorVars, normVars, urls_clean, phase, runs, now, domain_last_request,
                   urls_to_fetch, wake, completed, slots, log_mark>>

\* l.346-366 and the handlers l.394-404: session.get() returns or raises
GetResponse(i) ==
    /\ phase = "fetching"
    /\ pc[i] = "get"
    /\ \E response \in Responses :
        CASE response \in {"timeout", "client_error", "500"} -> LogOnly(i, "error")
          [] response \in {"403", "406"} ->
                IF PLAYWRIGHT_AVAILABLE
                THEN /\ pc' = [pc EXCEPT ![i] = "pw_blocked"]
                     /\ UNCHANGED <<raw_html, fetch_log, success_count, error_count>>
                ELSE LogOnly(i, "error")
          [] response = "non_html" -> LogOnly(i, "skipped")
          [] response = "html" ->
                /\ pc' = [pc EXCEPT ![i] = "read"]
                /\ UNCHANGED <<raw_html, fetch_log, success_count, error_count>>
    /\ UNCHANGED <<configVars, browserVars, collectorVars, normVars, urls_clean, phase, runs, now, domain_last_request,
                   urls_to_fetch, wake, completed, slots, requested, log_mark>>

\* l.369-392: response.read() returns the body (or raises), the body is
\* searched for the block phrases, and stored when none is found
ReadBody(i) ==
    /\ phase = "fetching"
    /\ pc[i] = "read"
    /\ \E body \in Pages \cup {"read_error"} :
        IF body = "read_error" THEN LogOnly(i, "error")
        ELSE IF body \in BlockPhrases
        THEN IF PLAYWRIGHT_AVAILABLE
             THEN /\ pc' = [pc EXCEPT ![i] = "pw_denied"]
                  /\ UNCHANGED <<raw_html, fetch_log, success_count, error_count>>
             ELSE LogOnly(i, "error")
        ELSE StoreAndLog(i, body)
    /\ UNCHANGED <<configVars, browserVars, collectorVars, normVars, urls_clean, phase, runs, now, domain_last_request,
                   urls_to_fetch, wake, completed, slots, requested, log_mark>>

\* l.350-358: the headless browser after a 403 or 406
PlaywrightBlocked(i) ==
    /\ phase = "fetching"
    /\ pc[i] = "pw_blocked"
    /\ \E o \in PlaywrightOutcomes :
        /\ requested' = requested \cup HeadlessRequest(i, o[2])
        /\ IF Truthy(o[1]) THEN StoreAndLog(i, o[1]) ELSE LogOnly(i, "error")
    /\ UNCHANGED <<configVars, browserVars, collectorVars, normVars, urls_clean, phase, runs, now, domain_last_request,
                   urls_to_fetch, wake, completed, slots, log_mark>>

\* l.375-385: the headless browser after a block phrase in the body
PlaywrightDenied(i) ==
    /\ phase = "fetching"
    /\ pc[i] = "pw_denied"
    /\ \E o \in PlaywrightOutcomes :
        /\ requested' = requested \cup HeadlessRequest(i, o[2])
        /\ IF Truthy(o[1]) /\ o[1] # "access denied"
           THEN StoreAndLog(i, o[1])
           ELSE LogOnly(i, "error")
    /\ UNCHANGED <<configVars, browserVars, collectorVars, normVars, urls_clean, phase, runs, now, domain_last_request,
                   urls_to_fetch, wake, completed, slots, log_mark>>

\* asyncio.gather returned: fetch_all_async and main_async finish (l.625-642,
\* l.721-726)
EndRun ==
    /\ phase = "fetching"
    /\ \A i \in DOMAIN pc : pc[i] = "done"
    /\ EndProcess
    /\ UNCHANGED <<configVars, browserVars, collectorVars, normVars, urls_clean, raw_html, fetch_log, runs, now>>

\* the pages the code may be writing for a task that stands at pc[i]
Writable(i) ==
    CASE pc[i] \in {"pw_first", "pw_blocked"} -> {p \in Pages : Truthy(p)}
      [] pc[i] = "pw_denied" -> {p \in Pages : Truthy(p) /\ p # "access denied"}
      [] pc[i] = "read" -> Pages \ BlockPhrases
      [] OTHER -> {}

\* the process is stopped (a signal, a power cut) while its tasks are suspended
Stop ==
    /\ phase = "fetching"
    /\ EndProcess
    /\ UNCHANGED <<configVars, browserVars, collectorVars, normVars, urls_clean, raw_html, fetch_log, runs, now>>

\* the process is stopped between open(file_path, 'w') and the end of
\* f.write(): the file exists and holds less than the page
StopInWrite(i) ==
    /\ phase = "fetching"
    /\ Writable(i) \ {""} # {}
    /\ raw_html' = [raw_html EXCEPT ![_get_file_path(UrlOf(i))] = Partial]
    /\ EndProcess
    /\ UNCHANGED <<configVars, browserVars, collectorVars, normVars, urls_clean, fetch_log, runs, now>>

\* the process is stopped after the file is closed and before _save_fetch_log
StopBeforeLog(i) ==
    /\ phase = "fetching"
    /\ \E content \in Writable(i) :
        raw_html' = [raw_html EXCEPT ![_get_file_path(UrlOf(i))] = content]
    /\ EndProcess
    /\ UNCHANGED <<configVars, browserVars, collectorVars, normVars, urls_clean, fetch_log, runs, now>>

\* time passes; the clock is read by a running fetcher only
Tick ==
    /\ phase = "fetching"
    /\ now < MaxTime
    /\ now' = now + 1
    /\ UNCHANGED <<configVars, browserVars, collectorVars, normVars, urls_clean, raw_html, fetch_log, phase, runs,
                   domain_last_request, urls_to_fetch, pc, wake, counterVars,
                   slots, requested, log_mark>>

Next ==
    \/ StartRun
    \/ \E i \in DOMAIN pc : Acquire(i)
    \/ \E i \in DOMAIN pc : WakeUp(i)
    \/ \E i \in DOMAIN pc : PlaywrightFirst(i)
    \/ \E i \in DOMAIN pc : GetResponse(i)
    \/ \E i \in DOMAIN pc : ReadBody(i)
    \/ \E i \in DOMAIN pc : PlaywrightBlocked(i)
    \/ \E i \in DOMAIN pc : PlaywrightDenied(i)
    \/ EndRun
    \/ Stop
    \/ \E i \in DOMAIN pc : StopInWrite(i)
    \/ \E i \in DOMAIN pc : StopBeforeLog(i)
    \/ Tick

Spec == Init /\ [][Next]_vars

(***************************************************************************)
(* The rate limiter under contention: one fetcher process started on       *)
(* RateTasks URLs                                                          *)
(***************************************************************************)
\* urls_clean.csv with RateTasks URLs of one domain
RateInputs ==
    {us \in [1..RateTasks -> {UrlA1, UrlB, UrlC, UrlC2}] :
        \A j, k \in 1..RateTasks : _extract_domain(us[j]) = _extract_domain(us[k])}

InitRate ==
    /\ InitConfig
    /\ urls_clean \in RateInputs
    /\ EmptyData
    /\ phase = "idle"
    /\ runs = MaxRuns - 1
    /\ now = 2
    /\ NoFetcher /\ NoCollector /\ NoNorm /\ NoBrowser

SpecRate == InitRate /\ [][Next]_vars

(***************************************************************************)
(* URLCollector: collect_urls and its worker threads                       *)
(***************************************************************************)
\* the url column of a sequence of rows
UrlsOf(rows) == {rows[k].url : k \in 1..Len(rows)}

\* the index without the normalized forms
_load_existing_urls_raw_only ==
    UrlsOf(urls_raw)
    \cup {urls_clean[k] : k \in 1..Len(urls_clean)}
    \cup ({articles_clean[k] : k \in 1..Len(articles_clean)} \ {<<>>})
    \cup ({scores[k] : k \in 1..Len(scores)} \ {<<>>})

\* _load_existing_urls: each URL of the four files, raw and normalized; a row
\* of articles_clean.csv or scores.csv whose url is empty is passed over
_load_existing_urls ==
    LET known == UrlsOf(urls_raw)
                 \cup {urls_clean[k] : k \in 1..Len(urls_clean)}
                 \cup ({articles_clean[k] : k \in 1..Len(articles_clean)} \ {<<>>})
                 \cup ({scores[k] : k \in 1..Len(scores)} \ {<<>>})
    IN  known \cup {_normalize_url(u) : u \in known}

\* the collector's _extract_domain is the fetcher's, line for line
_is_media_url(url) == _extract_domain(url) \in medias

\* the search results the queries of one run get: at most MaxResults in all
RECURSIVE TotalLen(_, _)
TotalLen(rs, n) == IF n = 0 THEN 0 ELSE Len(rs[n]) + TotalLen(rs, n - 1)

SearchResults ==
    {rs \in [1..NumQueries -> ListsUpTo(SearchPool, MaxResults)] :
        TotalLen(rs, NumQueries) <= MaxResults}

\* collect_urls up to the submission of the queries (l.381-426); without a
\* configured media there is no query
StartCollect ==
    /\ phase = "idle"
    /\ collects < MaxCollects
    /\ collects' = collects + 1
    /\ phase' = "collecting"
    /\ existing_urls' = _load_existing_urls
    /\ \E rs \in SearchResults :
        results' = IF medias = {} THEN <<>> ELSE rs
    /\ c_idx' = [q \in DOMAIN results' |-> 1]
    /\ c_pc' = [q \in DOMAIN results' |-> "check"]
    /\ c_new' = [q \in DOMAIN results' |-> <<>>]
    /\ c_skipped' = [q \in DOMAIN results' |-> 0]
    /\ new_urls' = <<>>
    /\ skipped_urls' = 0
    /\ UNCHANGED <<configVars, browserVars, normVars, urls_clean, raw_html, fetch_log, runs, now,
                   domain_last_request, urls_to_fetch, pc, wake, counterVars, slots,
                   requested, log_mark, urls_raw, articles_clean, scores>>

\* the result a query is at
CurrentUrl(q) == results[q][c_idx[q]]

\* the test of l.326, with the normalized form left out
KnownRawOnly(url) == url \in existing_urls

\* l.326: url in existing_urls or normalized_url in existing_urls
Known(url) == url \in existing_urls \/ _normalize_url(url) \in existing_urls

\* _process_search_query l.316-334: one result, under urls_lock
CheckAndAdd(q) ==
    /\ phase = "collecting"
    /\ c_pc[q] = "check"
    /\ c_idx[q] <= Len(results[q])
    /\ IF Known(CurrentUrl(q))
       THEN /\ c_skipped' = [c_skipped EXCEPT ![q] = @ + 1]
            /\ c_idx' = [c_idx EXCEPT ![q] = @ + 1]
            /\ UNCHANGED <<existing_urls, c_pc>>
       ELSE /\ existing_urls' = IF _is_media_url(CurrentUrl(q))
                                THEN existing_urls \cup {CurrentUrl(q), _normalize_url(CurrentUrl(q))}
                                ELSE existing_urls
            /\ c_pc' = [c_pc EXCEPT ![q] = "write"]
            /\ UNCHANGED <<c_skipped, c_idx>>
    /\ UNCHANGED <<configVars, browserVars, normVars, urls_clean, raw_html, fetch_log, phase, runs, now,
                   domain_last_request, urls_to_fetch, pc, wake, counterVars, slots,
                   requested, log_mark, urls_raw, articles_clean, scores, collects,
                   results, c_new, new_urls, skipped_urls>>

\* l.336-369: the row is appended to urls_raw.csv under csv_lock; its domain
\* column is the domain of the media the query was made for
WriteRow(q) ==
    /\ phase = "collecting"
    /\ c_pc[q] = "write"
    /\ urls_raw' = Append(urls_raw, [url |-> CurrentUrl(q), domain |-> LemondeFr])
    /\ c_new' = [c_new EXCEPT ![q] = Append(@, CurrentUrl(q))]
    /\ c_idx' = [c_idx EXCEPT ![q] = @ + 1]
    /\ c_pc' = [c_pc EXCEPT ![q] = "check"]
    /\ UNCHANGED <<configVars, browserVars, normVars, urls_clean, raw_html, fetch_log, phase, runs, now,
                   domain_last_request, urls_to_fetch, pc, wake, counterVars, slots,
                   requested, log_mark, articles_clean, scores, collects, existing_urls,
                   results, c_skipped, new_urls, skipped_urls>>

\* l.371-379: the results are exhausted; the statistics, under stats_lock
FinishQuery(q) ==
    /\ phase = "collecting"
    /\ c_pc[q] = "check"
    /\ c_idx[q] > Len(results[q])
    /\ new_urls' = new_urls \o c_new[q]
    /\ skipped_urls' = skipped_urls + c_skipped[q]
    /\ c_pc' = [c_pc EXCEPT ![q] = "done"]
    /\ UNCHANGED <<configVars, browserVars, normVars, urls_clean, raw_html, fetch_log, phase, runs, now,
                   domain_last_request, urls_to_fetch, pc, wake, counterVars, slots,
                   requested, log_mark, urls_raw, articles_clean, scores, collects,
                   existing_urls, results, c_idx, c_new, c_skipped>>

\* the rows of a file whose URL no earlier row has
RECURSIVE FirstOccurrences(_, _)
FirstOccurrences(rows, seen_urls) ==
    IF rows = <<>> THEN <<>>
    ELSE IF Head(rows).url \in seen_urls
         THEN FirstOccurrences(Tail(rows), seen_urls)
         ELSE <<Head(rows).url>> \o FirstOccurrences(Tail(rows), seen_urls \cup {Head(rows).url})

\* _deduplicate_urls: urls_clean.csv is rewritten from urls_raw.csv
_deduplicate_urls == FirstOccurrences(urls_raw, {})

\* every query has returned (l.429-457)
EndCollect ==
    /\ phase = "collecting"
    /\ \A q \in DOMAIN c_pc : c_pc[q] = "done"
    /\ urls_clean' = _deduplicate_urls
    /\ phase' = "idle"
    /\ UNCHANGED <<configVars, browserVars, normVars, raw_html, fetch_log, runs, now,
                   domain_last_request, urls_to_fetch, pc, wake, counterVars, slots,
                   requested, log_mark, urls_raw, articles_clean, scores, collects,
                   existing_urls, results, c_idx, c_pc, c_new, c_skipped, new_urls,
                   skipped_urls>>

\* run_pipeline.py on an empty data/ directory: the collector, then the fetcher
InitPipeline ==
    /\ InitConfig
    /\ urls_clean = <<>>
    /\ EmptyData
    /\ phase = "idle"
    /\ runs = 0
    /\ now = 2
    /\ NoFetcher /\ NoCollector /\ NoNorm /\ NoBrowser

NextPipeline ==
    \/ StartCollect
    \/ \E q \in DOMAIN c_pc : CheckAndAdd(q)
    \/ \E q \in DOMAIN c_pc : WriteRow(q)
    \/ \E q \in DOMAIN c_pc : FinishQuery(q)
    \/ EndCollect
    \/ Next

SpecPipeline == InitPipeline /\ [][NextPipeline]_vars

(***************************************************************************)
(* The canonicalisers on pairs of URLs: a URL, a second one that differs   *)
(* from it in one respect, and the keys the two functions give them        *)
(***************************************************************************)
NormPrefixes == {<<"h", ":">>, <<"h", ":", "/", "/", "e">>, <<"H", ":", "/", "/", "E">>}
NormChars == {"a", "A", "/", "?", "#"}
NormInputs == {p \o t : p \in NormPrefixes, t \in ListsUpTo(NormChars, MaxTail)}

\* the fragments a second URL is given
Fragments == {<<>>, <<"#">>, <<"#", "a">>, <<"#", "/">>}

\* the positions urlparse gives to the scheme, the netloc and the path
SchemeEnd(url) ==
    IF SplitScheme(url).scheme = <<>> THEN 0 ELSE Len(SplitScheme(url).scheme)
NetlocStart(url) == (IF SchemeEnd(url) = 0 THEN 0 ELSE SchemeEnd(url) + 1) + 3
NetlocStop(url) == NetlocStart(url) + Len(urlparse(url).netloc) - 1
PathStart(url) ==
    IF Len(SplitScheme(url).rest) >= 2 /\ SplitScheme(url).rest[1] = "/"
                                       /\ SplitScheme(url).rest[2] = "/"
    THEN NetlocStop(url) + 1
    ELSE NetlocStart(url) - 2
PathStop(url) == PathStart(url) + Len(urlparse(url).path) - 1

\* url with the letters at the positions of S in the other case
SwapCase(url, S) == [k \in 1..Len(url) |-> IF k \in S THEN SwapCaseChar(url[k]) ELSE url[k]]

\* the non-empty sets of positions of letters between lo and hi
LetterSets(url, lo, hi) ==
    SUBSET {k \in lo..hi : IsAsciiAlpha(url[k])} \ {{}}

InitNorm ==
    /\ medias = {} /\ PLAYWRIGHT_AVAILABLE = FALSE /\ max_concurrent = 1
    /\ urls_clean = <<>>
    /\ EmptyData
    /\ phase = "norm"
    /\ runs = 0
    /\ now = 2
    /\ NoFetcher /\ NoCollector /\ NoBrowser
    /\ n_u1 \in NormInputs
    /\ n_u2 = <<>> /\ n_rel = "none" /\ n_keys = <<>> /\ n_dkeys = <<>>

\* the second URL, and in what it differs from the first
Vary(u2, rel) ==
    /\ phase = "norm"
    /\ n_rel = "none"
    /\ u2 # n_u1
    /\ n_u2' = u2
    /\ n_rel' = rel
    /\ UNCHANGED <<configVars, browserVars, collectorVars, urls_clean, raw_html, fetch_log, phase, runs,
                   now, domain_last_request, urls_to_fetch, pc, wake, counterVars, slots,
                   requested, log_mark, n_u1, n_keys, n_dkeys>>

VaryFragment == \E f \in Fragments : Vary(BeforeFirst(n_u1, "#") \o f, "fragment")

VarySlash == Vary(n_u1 \o <<"/">>, "slash")

VarySchemeCase ==
    \E S \in LetterSets(n_u1, 1, SchemeEnd(n_u1)) : Vary(SwapCase(n_u1, S), "scheme")

VaryHostCase ==
    /\ urlparse(n_u1).netloc # <<>>
    /\ \E S \in LetterSets(n_u1, NetlocStart(n_u1), NetlocStop(n_u1)) :
        Vary(SwapCase(n_u1, S), "host")

VaryPathCase ==
    \E S \in LetterSets(n_u1, PathStart(n_u1), PathStop(n_u1)) : Vary(SwapCase(n_u1, S), "path")

\* both functions are applied to both URLs
Normalize ==
    /\ phase = "norm"
    /\ n_rel # "none"
    /\ n_keys = <<>>
    /\ n_keys' = <<_normalize_url(n_u1), _normalize_url(n_u2)>>
    /\ n_dkeys' = <<normalize_url(n_u1), normalize_url(n_u2)>>
    /\ UNCHANGED <<configVars, browserVars, collectorVars, urls_clean, raw_html, fetch_log, phase, runs,
                   now, domain_last_request, urls_to_fetch, pc, wake, counterVars, slots,
                   requested, log_mark, n_u1, n_u2, n_rel>>

NextNorm ==
    \/ VaryFragment
    \/ VarySlash
    \/ VarySchemeCase
    \/ VaryHostCase
    \/ VaryPathCase
    \/ Normalize

SpecNorm == InitNorm /\ [][NextNorm]_vars

(***************************************************************************)
(* Properties                                                              *)
(***************************************************************************)
\* the rows of the ledger that record a success for url
SuccessRows(url) ==
    {k \in 1..Len(fetch_log) : fetch_log[k].url = url /\ fetch_log[k].status = "success"}

\* C1: for every domain, two consecutive slots granted by the rate limiter of
\* one fetcher are separated by at least the interval configured for the
\* domain, however the workers interleave.
C1_MinimumInterval ==
    \A d \in Domains : \A k \in 1..(Len(slots[d]) - 1) :
        slots[d][k + 1] - slots[d][k] >= domain_delays(d)

\* C2: after any sequence of runs, the ledger holds at most one success entry
\* for any URL, also when urls_clean.csv names a URL more than once.
C2_OneSuccessPerUrl == \A u \in UrlPool : Cardinality(SuccessRows(u)) <= 1

\* C3: every success entry of the ledger is for a URL whose file exists in the
\* store and is not empty.
C3_SuccessHasDocument ==
    \A k \in 1..Len(fetch_log) :
        fetch_log[k].status = "success" =>
            /\ _is_already_fetched(fetch_log[k].url)
            /\ raw_html[_get_file_path(fetch_log[k].url)] # ""

\* the URLs with a success row among the rows the ledger held when the run
\* started, wherever the row stands
SucceededBefore ==
    {fetch_log[k].url : k \in {j \in 1..log_mark : fetch_log[j].status = "success"}}

\* C4: a run sends no request, direct or headless, for a URL that had a
\* success entry in the ledger when the run started, even when a later
\* non-success entry for the URL follows it.
C4_NoRequestAfterSuccess ==
    \A r \in requested : r[1] \notin SucceededBefore

\* C4, reached: a task of a later run is done without a request, for a URL
\* whose success row is followed in the ledger by a non-success row.
C4_Witness ==
    /\ phase = "fetching"
    /\ \E i \in DOMAIN pc :
        /\ pc[i] = "done"
        /\ \A r \in requested : r[1] # UrlOf(i)
        /\ \E k \in 1..log_mark : \E j \in (k + 1)..log_mark :
            /\ fetch_log[k] = LogRow(UrlOf(i), "success")
            /\ fetch_log[j] = LogRow(UrlOf(i), "error")

C9_AtomicWrite ==
    \A u \in UrlPool : raw_html[_get_file_path(u)] \notin {Partial, ""}

\* C10: a task that calls fetch_url_async for a URL whose file exists returns
\* at once, and no request is sent, whatever the ledger holds.
C10_StoreIsAuthoritative ==
    [][\A i \in DOMAIN pc :
          (/\ pc[i] = "waiting"
           /\ raw_html[_get_file_path(UrlOf(i))] # Absent
           /\ i \in DOMAIN pc'
           /\ pc'[i] # "waiting")
          => (pc'[i] = "done" /\ requested' = requested)]_vars

\* C10, reached: a task is done without a request for a URL whose file exists
\* while the ledger has no success row for it.
C10_Witness ==
    /\ phase = "fetching"
    /\ \E i \in DOMAIN pc :
        /\ pc[i] = "done"
        /\ raw_html[_get_file_path(UrlOf(i))] # Absent
        /\ SuccessRows(UrlOf(i)) = {}
        /\ \A r \in requested : r[1] # UrlOf(i)
        /\ \A k \in 1..Len(fetch_log) : fetch_log[k].url # UrlOf(i)

\* the URLs the search engine returned to the queries of the run
Returned == UNION {{results[q][k] : k \in 1..Len(results[q])} : q \in DOMAIN results}

\* the normalized key of each URL of the pool
KeyOf == [u \in UrlPool |-> _normalize_url(u)]

\* C6: of the URLs with one normalized key that the collector is given, at
\* most one becomes a task of the fetcher, in any run, and a run records one
\* outcome for the key.
C6_OneFetchPerKey ==
    /\ \A i, j \in DOMAIN urls_to_fetch :
        KeyOf[urls_to_fetch[i]] = KeyOf[urls_to_fetch[j]] => i = j
    /\ \A k, l \in 1..Len(fetch_log) :
        KeyOf[fetch_log[k].url] = KeyOf[fetch_log[l].url] => fetch_log[k].url = fetch_log[l].url
    /\ phase = "fetching" =>
        \A k, l \in (log_mark + 1)..Len(fetch_log) :
            KeyOf[fetch_log[k].url] = KeyOf[fetch_log[l].url] => k = l

\* C6, reached: the search returned both https://www.lemonde.fr/a?ref=1#x and
\* https://www.lemonde.fr/a/, and the fetcher has recorded the outcome of one.
C6_Witness ==
    /\ {UrlA1, UrlA2} \subseteq Returned
    /\ phase = "fetching"
    /\ \E k \in (log_mark + 1)..Len(fetch_log) : fetch_log[k].url \in {UrlA1, UrlA2}

\* C7: two URLs that differ only by their fragment, or only by a trailing
\* slash, have the same key under _normalize_url.
C7_FragmentAndSlash ==
    (n_keys # <<>> /\ n_rel \in {"fragment", "slash"}) => n_keys[1] = n_keys[2]

\* C8: two URLs that differ only in the letter case of the scheme or of the
\* host have the same key under _normalize_url, and two URLs that differ in
\* the letter case of the path have different keys.
C8_CaseOfSchemeHostPath ==
    n_keys # <<>> =>
        /\ n_rel \in {"scheme", "host"} => n_keys[1] = n_keys[2]
        /\ n_rel = "path" => n_keys[1] # n_keys[2]

\* C11: a URL that the search returns to several workers of one collect_urls
\* run, in the same raw form or in forms with one normalized key, is recorded
\* as new (a row of urls_raw.csv) at most once.
C11_RecordedOnce ==
    \A k, l \in 1..Len(urls_raw) :
        KeyOf[urls_raw[k].url] = KeyOf[urls_raw[l].url] => k = l

(***************************************************************************)
(* collect_urls started on a data/ directory that earlier runs have filled *)
(***************************************************************************)
\* the URLs the four files hold
IndexPool == {UrlA1, UrlC2}

InitIndex ==
    /\ medias = {LemondeFr} /\ PLAYWRIGHT_AVAILABLE = FALSE /\ max_concurrent = 1
    /\ \E us \in ListsUpTo(IndexPool, MaxIndexRows) :
        urls_raw = [k \in 1..Len(us) |-> [url |-> us[k], domain |-> LemondeFr]]
    /\ urls_clean \in ListsUpTo(IndexPool, MaxIndexRows)
    /\ articles_clean \in ListsUpTo(IndexPool \cup {<<>>}, MaxIndexRows)
    /\ scores \in ListsUpTo(IndexPool \cup {<<>>}, MaxIndexRows)
    /\ raw_html = [u \in UrlPool |-> Absent]
    /\ fetch_log = <<>>
    /\ phase = "idle"
    /\ runs = 0
    /\ now = 2
    /\ NoFetcher /\ NoCollector /\ NoNorm /\ NoBrowser

NextIndex ==
    \/ StartCollect
    \/ \E q \in DOMAIN c_pc : CheckAndAdd(q)
    \/ \E q \in DOMAIN c_pc : WriteRow(q)
    \/ \E q \in DOMAIN c_pc : FinishQuery(q)
    \/ EndCollect

SpecIndex == InitIndex /\ [][NextIndex]_vars

\* the URLs of the four files; an empty url field is no URL
SourceUrls ==
    (UrlsOf(urls_raw)
     \cup {urls_clean[k] : k \in 1..Len(urls_clean)}
     \cup {articles_clean[k] : k \in 1..Len(articles_clean)}
     \cup {scores[k] : k \in 1..Len(scores)}) \ {<<>>}

\* the index is built and no worker has tested a URL yet
IndexJustBuilt ==
    /\ phase = "collecting"
    /\ \A q \in DOMAIN c_pc : c_idx[q] = 1 /\ c_pc[q] = "check"

\* C12: right after _load_existing_urls, every URL of the four files is in the
\* index with its normalized form, and the index holds nothing else.
C12_IndexContents ==
    IndexJustBuilt =>
        /\ \A u \in SourceUrls : u \in existing_urls /\ _normalize_url(u) \in existing_urls
        /\ \A x \in existing_urls : \E u \in SourceUrls : x = u \/ x = _normalize_url(u)

\* C12, reached: the index is built from four files that all hold a URL, one
\* of them a URL that is not its own normalized form.
C12_Witness ==
    /\ IndexJustBuilt
    /\ urls_raw # <<>> /\ urls_clean # <<>>
    /\ articles_clean = <<UrlA1>> /\ scores = <<UrlC2>>
    /\ UrlC \in existing_urls

\* every task of the run has returned
AllDone == phase = "fetching" /\ \A i \in DOMAIN pc : pc[i] = "done"

\* the rows the run has appended to the ledger for url
RowsOfRun(url) == {k \in (log_mark + 1)..Len(fetch_log) : fetch_log[k].url = url}

\* C13: when the tasks of a run have returned, the run has appended to the
\* ledger exactly one row for each URL it dispatched (one per task of the URL),
\* whichever way the fetch went.
C13_OneOutcomePerDispatch ==
    AllDone =>
        \A u \in {urls_to_fetch[i] : i \in DOMAIN urls_to_fetch} :
            Cardinality(RowsOfRun(u)) = Cardinality({i \in DOMAIN urls_to_fetch : urls_to_fetch[i] = u})

(***************************************************************************)
(* The fetcher left to run: the process is not stopped, the event loop     *)
(* runs every task that is ready, every sleep ends, and every network call *)
(* returns or raises within its timeout (session.get: 15 s, page.goto:     *)
(* 30 s)                                                                   *)
(***************************************************************************)
\* time passes for a running fetcher, and goes on past MaxTime while a task
\* sleeps in asyncio.sleep (l.303)
TimePasses ==
    /\ phase = "fetching"
    /\ \/ now < MaxTime
       \/ \E i \in DOMAIN pc : pc[i] = "rate_wait" /\ wake[i] > now
    /\ now' = now + 1
    /\ UNCHANGED <<configVars, browserVars, collectorVars, normVars, urls_clean, raw_html, fetch_log, phase, runs,
                   domain_last_request, urls_to_fetch, pc, wake, counterVars,
                   slots, requested, log_mark>>

NextFair ==
    \/ StartRun
    \/ \E i \in DOMAIN pc : Acquire(i)
    \/ \E i \in DOMAIN pc : WakeUp(i)
    \/ \E i \in DOMAIN pc : PlaywrightFirst(i)
    \/ \E i \in DOMAIN pc : GetResponse(i)
    \/ \E i \in DOMAIN pc : ReadBody(i)
    \/ \E i \in DOMAIN pc : PlaywrightBlocked(i)
    \/ \E i \in DOMAIN pc : PlaywrightDenied(i)
    \/ EndRun
    \/ TimePasses

SpecFair == Init /\ [][NextFair]_vars /\ WF_vars(NextFair)

\* C14: a run that has dispatched its URLs always comes to the point where
\* every task has returned, whatever subset of the fetches failed: a failure
\* is turned into the worker's result and never leaves the worker.
C14_EveryTaskReturns == (phase = "fetching") ~> AllDone

\* a run in which one fetch failed and another one succeeded has finished
C14_Witness == AllDone /\ error_count >= 1 /\ success_count >= 1

\* the ledger read at the start of a run has url as a success
SuccessInLedger(url) ==
    url \in DOMAIN _load_fetch_log /\ _load_fetch_log[url].status = "success"

InFetch ==
    {i \in DOMAIN pc :
        pc[i] \in {"rate_wait", "pw_first", "get", "read", "pw_blocked", "pw_denied"}}

WaitsForSlot(i) == i \in DOMAIN pc /\ pc[i] = "waiting"

\* C16: at every moment at most max_concurrent tasks are inside the fetch,
\* and every task that waits for a slot of the semaphore gets one in the end,
\* because a task gives its slot back however it leaves.
C16_BoundedAndServed ==
    /\ [](Cardinality(InFetch) <= max_concurrent)
    /\ \A i \in 1..MaxInput : [](WaitsForSlot(i) => <>(~WaitsForSlot(i)))

\* with one slot, the first task has left on a failure and the second one,
\* which waited, is inside the fetch
C16_Witness ==
    /\ max_concurrent = 1
    /\ Len(pc) = 2 /\ pc[1] = "done" /\ error_count = 1 /\ success_count = 0
    /\ 2 \in InFetch

(***************************************************************************)
(* The synchronous fallback: main() catches RuntimeError from asyncio.run, *)
(* builds a fresh ArticleFetcher and calls fetch_all, which runs fetch_url *)
(* on one URL after the other. The fallback has no rate limiter and never  *)
(* reads the clock; the sleeps between two URLs change no state.           *)
(***************************************************************************)
\* main, l.739-742, and fetch_all up to its loop (l.644-682)
StartSync ==
    /\ phase = "idle"
    /\ runs < MaxRuns
    /\ runs' = runs + 1
    /\ LET log == _load_fetch_log
           already_processed == {u \in DOMAIN log : log[u].status = "success"}
           allowed_domains == medias
           Keep(url) == /\ url \notin already_processed
                        /\ (allowed_domains = {} \/ _is_allowed_domain(url))
           todo == SelectSeq(urls_clean, Keep)
       IN  IF Len(todo) = 0
           THEN UNCHANGED <<phase, urls_to_fetch, pc, wake, log_mark>>
           ELSE /\ phase' = "sync"
                /\ urls_to_fetch' = todo
                /\ pc' = [i \in 1..Len(todo) |-> "waiting"]
                /\ wake' = [i \in 1..Len(todo) |-> 0]
                /\ log_mark' = Len(fetch_log)
    /\ UNCHANGED <<configVars, browserVars, collectorVars, normVars, urls_clean, raw_html, fetch_log, now,
                   domain_last_request, counterVars, slots, requested>>

\* fetch_url from its start to its first session.get (l.406-449). With
\* PLAYWRIGHT_AVAILABLE the name PLAYWRIGHT_SYNC_ONLY is not bound (l.24-34),
\* so _init_playwright raises NameError (l.133), which leaves
\* _fetch_with_playwright (l.228) and ends in the handler of l.542-546
SyncBegin(i) ==
    /\ phase = "sync"
    /\ pc[i] = "waiting"
    /\ \A j \in 1..(i-1) : pc[j] = "done"
    /\ IF _is_already_fetched(UrlOf(i))
       THEN /\ Finish(i, TRUE)
            /\ UNCHANGED <<raw_html, fetch_log, requested>>
       ELSE IF DomainOf(i) \in use_playwright_for /\ PLAYWRIGHT_AVAILABLE
       THEN /\ LogOnly(i, "error")
            /\ UNCHANGED requested
       ELSE /\ pc' = [pc EXCEPT ![i] = "sync_get"]
            /\ requested' = requested \cup {<<UrlOf(i), "direct">>}
            /\ UNCHANGED <<raw_html, fetch_log, success_count, error_count>>
    /\ UNCHANGED <<configVars, browserVars, collectorVars, normVars, urls_clean, phase, runs, now, domain_last_request,
                   urls_to_fetch, wake, completed, slots, log_mark>>

\* l.489-516: response.text is searched for the block phrases; the headless
\* browser of l.495 is reached with PLAYWRIGHT_AVAILABLE only, and raises
SyncBody(i) ==
    \E body \in Pages :
        IF body \in BlockPhrases THEN LogOnly(i, "error") ELSE StoreAndLog(i, body)

\* l.484-516 and the handlers l.518-546
SyncAnswer(i, response) ==
    CASE response \in {"timeout", "client_error", "403", "406", "500"} -> LogOnly(i, "error")
      [] response = "non_html" -> LogOnly(i, "skipped")
      [] response = "html" -> SyncBody(i)

\* the first session.get returns or raises (l.449-482): on a 403 or 406
\* without PLAYWRIGHT_AVAILABLE the home page is requested, and the URL again
SyncResponse(i) ==
    /\ phase = "sync"
    /\ pc[i] = "sync_get"
    /\ \E response \in Responses :
        IF response \in {"403", "406"} /\ ~PLAYWRIGHT_AVAILABLE
        THEN /\ pc' = [pc EXCEPT ![i] = "sync_retry"]
             /\ requested' = requested \cup {<<UrlOf(i), "home">>, <<UrlOf(i), "retry">>}
             /\ UNCHANGED <<raw_html, fetch_log, success_count, error_count>>
        ELSE /\ SyncAnswer(i, response)
             /\ UNCHANGED requested
    /\ UNCHANGED <<configVars, browserVars, collectorVars, normVars, urls_clean, phase, runs, now, domain_last_request,
                   urls_to_fetch, wake, completed, slots, log_mark>>

\* the second session.get returns or raises (l.482-516)
SyncRetryResponse(i) ==
    /\ phase = "sync"
    /\ pc[i] = "sync_retry"
    /\ \E response \in Responses : SyncAnswer(i, response)
    /\ UNCHANGED <<configVars, browserVars, collectorVars, normVars, urls_clean, phase, runs, now, domain_last_request,
                   urls_to_fetch, wake, completed, slots, requested, log_mark>>

\* the loop of fetch_all is over: fetch_all and main return (l.708-713)
EndSync ==
    /\ phase = "sync"
    /\ \A i \in DOMAIN pc : pc[i] = "done"
    /\ EndProcess
    /\ UNCHANGED <<configVars, browserVars, collectorVars, normVars, urls_clean, raw_html, fetch_log, runs, now>>

NextSync ==
    \/ StartSync
    \/ \E i \in DOMAIN pc : SyncBegin(i)
    \/ \E i \in DOMAIN pc : SyncResponse(i)
    \/ \E i \in DOMAIN pc : SyncRetryResponse(i)
    \/ EndSync

SpecSync == Init /\ [][NextSync]_vars

\* C17: with no headless strategy available, a URL whose direct fetch is
\* answered 403 or 406 is finished at once: the only request the run makes
\* for it is that direct fetch - no request of the site's home page, no
\* second GET of the URL.
C17_BlockedAtOnce ==
    ~PLAYWRIGHT_AVAILABLE => \A r \in requested : r[2] = "direct"

\* the step in which task i appends the row of a non-HTML answer
RecordsSkipped(i) ==
    /\ pc'[i] # pc[i]
    /\ fetch_log' = Append(fetch_log, LogRow(UrlOf(i), "skipped"))

\* C18: the worker whose direct fetch is answered 2xx with a content type
\* that is not HTML records the skipped outcome and returns in the same step,
\* storing no document and issuing no request; having returned, it makes no
\* further attempt for the URL in the run, the headless browser included.
C18_NonHtmlIsTerminal ==
    [][\A i \in DOMAIN pc :
          /\ (i \in DOMAIN pc' /\ RecordsSkipped(i))
                => /\ pc[i] \in {"get", "sync_get", "sync_retry"}
                   /\ pc'[i] = "done"
                   /\ raw_html' = raw_html
                   /\ requested' = requested
          /\ (pc[i] = "done" /\ i \in DOMAIN pc' /\ phase' = phase)
                => pc'[i] = "done"]_vars

\* with the headless browser at hand, a URL was answered non-HTML: one
\* direct request, a skipped row, no file
C18_Witness ==
    /\ PLAYWRIGHT_AVAILABLE
    /\ phase = "fetching"
    /\ \E i \in DOMAIN pc : pc[i] = "done" /\ UrlOf(i) = UrlC
    /\ fetch_log = <<LogRow(UrlC, "skipped")>>
    /\ raw_html[UrlC] = Absent
    /\ requested = {<<UrlC, "direct">>}

\* the URLs for which the step issues a request of the given strategy
NewlyRequested(strategy) ==
    {u \in UrlPool : <<u, strategy>> \in requested' \ requested}

\* the headless browser is the first strategy for url
HeadlessFirst(url) ==
    PLAYWRIGHT_AVAILABLE /\ _extract_domain(url) \in use_playwright_for

\* C19 as written: the headless browser is asked for a URL only when a direct
\* request for that URL has been made before.
C19_DirectAlwaysFirst ==
    \A u \in UrlPool : <<u, "headless">> \in requested => <<u, "direct">> \in requested

\* C19: for a URL of a domain that is not listed in use_playwright_for, or
\* when Playwright is not installed, the direct request comes first and the
\* headless browser is asked only by a worker whose direct request was
\* answered (403/406, or a block phrase in the body); for a URL of a listed
\* domain with Playwright installed, the headless browser comes first and the
\* direct request is made only by a worker whose headless attempt has ended.
C19_OrderOfStrategies ==
    [][/\ \A u \in NewlyRequested("headless") :
             IF HeadlessFirst(u)
             THEN \E i \in DOMAIN pc :
                      UrlOf(i) = u /\ pc[i] \in {"pw_first", "pw_blocked", "pw_denied"}
             ELSE \E i \in DOMAIN pc :
                      UrlOf(i) = u /\ pc[i] \in {"pw_blocked", "pw_denied"}
       /\ \A u \in NewlyRequested("direct") :
             IF HeadlessFirst(u)
             THEN \E i \in DOMAIN pc : UrlOf(i) = u /\ pc[i] = "pw_first"
             ELSE \E i \in DOMAIN pc : UrlOf(i) = u /\ pc[i] \in {"waiting", "rate_wait"}]_vars

\* a URL of a listed domain was fetched by the headless browser alone, and a
\* URL of another domain by the headless browser after its direct request
C19_Witness ==
    /\ <<UrlA1, "headless">> \in requested /\ <<UrlA1, "direct">> \notin requested
    /\ <<UrlC, "direct">> \in requested /\ <<UrlC, "headless">> \in requested

\* C20: a page that holds a block phrase (access denied, accès refusé,
\* access forbidden) is never stored. The direct strategy stores no such
\* body (l.371-385), so a stored page with a block phrase is a page of the
\* headless browser that was accepted without being classified.
C20_HeadlessPageReclassified ==
    \A u \in UrlPool : raw_html[u] \notin BlockPhrases

\* C21: a worker invokes the headless browser at most once for its URL: a
\* worker that stands at an escalation (after a 403/406, or after a block
\* phrase in the body) has not already gone through the headless browser as
\* the first strategy of the URL.
C21_EscalatesOnce ==
    \A i \in DOMAIN pc :
        pc[i] \in {"pw_blocked", "pw_denied"} => ~HeadlessFirst(UrlOf(i))

\* the last row of the ledger for url is an error row
LastRowIsError(url) ==
    \E k \in 1..Len(fetch_log) :
        /\ fetch_log[k] = LogRow(url, "error")
        /\ \A j \in (k+1)..Len(fetch_log) : fetch_log[j].url # url

\* the step in which task i appends an error row (a timeout and a network
\* error are recorded so, l.394-400)
RecordsError(i) ==
    /\ pc'[i] # pc[i]
    /\ fetch_log' = Append(fetch_log, LogRow(UrlOf(i), "error"))

\* C25: the worker whose fetch fails records an error row, stores no document
\* and returns; and a run that starts dispatches every URL of urls_clean.csv
\* whose last ledger row is an error row, provided its domain passes the
\* allow-list.
C25_ErrorIsRetried ==
    [][/\ \A i \in DOMAIN pc :
             (i \in DOMAIN pc' /\ RecordsError(i))
                 => pc'[i] = "done" /\ raw_html' = raw_html
       /\ (phase = "idle" /\ runs' = runs + 1)
             => \A k \in 1..Len(urls_clean) :
                    (LastRowIsError(urls_clean[k]) /\ _is_allowed_domain(urls_clean[k]))
                        => /\ phase' = "fetching"
                           /\ \E i \in DOMAIN urls_to_fetch' :
                                  urls_to_fetch'[i] = urls_clean[k]]_vars

\* the second run has requested again a URL that the first run recorded as
\* an error and for which nothing is stored
C25_Witness ==
    /\ runs = 2 /\ phase = "fetching"
    /\ log_mark = 1 /\ fetch_log[1] = LogRow(UrlC, "error")
    /\ raw_html[UrlC] = Absent
    /\ <<UrlC, "direct">> \in requested

\* the requests the running fetcher has sent to domain d
RequestsTo(d) == {r \in requested : _extract_domain(r[1]) = d}

\* C26: every request sent to a domain, direct or headless, has a slot of the
\* rate limiter of its own: the requests sent to a domain are never more
\* numerous than the slots granted for it.
C26_OneSlotPerRequest ==
    \A d \in Domains : Cardinality(RequestsTo(d)) <= Len(slots[d])

\* C27: when the tasks of a run have returned, every URL the run dispatched
\* whose document is in the store has a success row in the ledger, also when
\* the document was written by an earlier run that stopped before it logged.
C27_StoredIsLoggedAfterRun ==
    AllDone =>
        \A i \in DOMAIN urls_to_fetch :
            raw_html[_get_file_path(UrlOf(i))] \notin {Absent, Partial}
                => HasSuccessRow(UrlOf(i))

\* C28: every row of urls_raw.csv has a URL of a configured media domain.
C28_OnlyMediaRows ==
    \A k \in 1..Len(urls_raw) : _is_media_url(urls_raw[k].url)

\* C30: _normalize_url is idempotent: the key of a key is the key.
C30_NormalizeIdempotent ==
    \A k \in DOMAIN n_keys : _normalize_url(n_keys[k]) = n_keys[k]

(***************************************************************************)
(* The headless browser as a resource: _init_playwright_async,             *)
(* _fetch_with_playwright_async and _close_playwright_async, one action    *)
(* from each await to the next. A driver and the browser it launches take  *)
(* the number of the task that started them; a context is                  *)
(* <<task, browser, call site>>.                                           *)
(***************************************************************************)
\* the three places where fetch_url_async calls _fetch_with_playwright_async
PwSites == {"pw_first", "pw_blocked", "pw_denied"}

\* the contexts task i created at the call site where it stands
OwnContexts(i) == {c \in contexts : c[1] = i /\ c[3] = pc[i]}

SetStep(i, step, html) ==
    /\ pw_step' = [pw_step EXCEPT ![i] = step]
    /\ pw_html' = [pw_html EXCEPT ![i] = html]

\* urls_clean.csv names URLs of lemonde.fr, which is configured and listed in
\* use_playwright_for; Playwright is installed; one run
InitBrowser ==
    /\ medias = {LemondeFr}
    /\ PLAYWRIGHT_AVAILABLE = TRUE
    /\ max_concurrent \in 1..MaxConcurrent
    /\ urls_clean \in ListsUpTo({UrlA1, UrlB}, MaxInput)
    /\ EmptyData
    /\ phase = "idle"
    /\ runs = MaxRuns - 1
    /\ now = 2
    /\ NoFetcher /\ NoCollector /\ NoNorm /\ NoBrowser

\* _fetch_with_playwright_async is called (l.192-199): _init_playwright_async
\* up to its first await (l.112-119), or, when self.playwright is set, the
\* call of self.browser.new_context, which raises AttributeError when
\* self.browser is still None (caught l.222-224)
CallHeadless(i) ==
    /\ phase = "fetching"
    /\ pc[i] \in PwSites
    /\ pw_step[i] = "idle"
    /\ IF ~PLAYWRIGHT_AVAILABLE
       THEN /\ SetStep(i, "return", None)
            /\ UNCHANGED contexts
       ELSE IF playwright = NoHandle
       THEN /\ SetStep(i, "start", None)
            /\ UNCHANGED contexts
       ELSE IF browser = NoHandle
       THEN /\ SetStep(i, "return", None)
            /\ UNCHANGED contexts
       ELSE /\ SetStep(i, "context", None)
            /\ contexts' = contexts \cup {<<i, browser, pc[i]>>}
    /\ UNCHANGED <<playwright, browser, live_drivers, live_browsers>>
    /\ UNCHANGED <<configVars, collectorVars, normVars, urls_clean, raw_html, fetch_log, phase, runs,
                   now, domain_last_request, urls_to_fetch, pc, wake, counterVars, slots,
                   requested, log_mark>>

\* async_playwright().start() returns or raises (l.119); on return
\* self.playwright is assigned and chromium.launch is called (l.121)
Started(i) ==
    /\ phase = "fetching"
    /\ pw_step[i] = "start"
    /\ \E ok \in BOOLEAN :
        IF ok
        THEN /\ playwright' = i
             /\ live_drivers' = live_drivers \cup {i}
             /\ SetStep(i, "launch", None)
        ELSE /\ SetStep(i, "return", None)
             /\ UNCHANGED <<playwright, live_drivers>>
    /\ UNCHANGED <<browser, live_browsers, contexts>>
    /\ UNCHANGED <<configVars, collectorVars, normVars, urls_clean, raw_html, fetch_log, phase, runs,
                   now, domain_last_request, urls_to_fetch, pc, wake, counterVars, slots,
                   requested, log_mark>>

\* chromium.launch returns or raises (l.121-129); on return self.browser is
\* assigned, _init_playwright_async returns True and new_context is called
\* (l.199)
Launched(i) ==
    /\ phase = "fetching"
    /\ pw_step[i] = "launch"
    /\ \E ok \in BOOLEAN :
        IF ok
        THEN /\ browser' = i
             /\ live_browsers' = live_browsers \cup {i}
             /\ contexts' = contexts \cup {<<i, i, pc[i]>>}
             /\ SetStep(i, "context", None)
        ELSE /\ SetStep(i, "return", None)
             /\ UNCHANGED <<browser, live_browsers, contexts>>
    /\ UNCHANGED <<playwright, live_drivers>>
    /\ UNCHANGED <<configVars, collectorVars, normVars, urls_clean, raw_html, fetch_log, phase, runs,
                   now, domain_last_request, urls_to_fetch, pc, wake, counterVars, slots,
                   requested, log_mark>>

\* new_context and new_page return and page.goto is called (l.199-208), or
\* one of them raises and the handler returns None (l.222-224)
ContextReady(i) ==
    /\ phase = "fetching"
    /\ pw_step[i] = "context"
    /\ \E ok \in BOOLEAN :
        IF ok
        THEN /\ requested' = requested \cup {<<UrlOf(i), "headless">>}
             /\ SetStep(i, "goto", None)
        ELSE /\ SetStep(i, "return", None)
             /\ UNCHANGED requested
    /\ UNCHANGED <<playwright, browser, live_drivers, live_browsers, contexts>>
    /\ UNCHANGED <<configVars, collectorVars, normVars, urls_clean, raw_html, fetch_log, phase, runs,
                   now, domain_last_request, urls_to_fetch, pc, wake, counterVars, slots,
                   log_mark>>

\* page.goto, wait_for_timeout and page.content return, the page and the
\* context are closed (l.208-220); or one of them raises (navigation timeout,
\* page error) and the handler returns None (l.222-224)
Navigated(i) ==
    /\ phase = "fetching"
    /\ pw_step[i] = "goto"
    /\ \E html \in Pages \cup {None} :
        /\ SetStep(i, "return", html)
        /\ contexts' = IF html = None THEN contexts ELSE contexts \ OwnContexts(i)
    /\ UNCHANGED <<playwright, browser, live_drivers, live_browsers>>
    /\ UNCHANGED <<configVars, collectorVars, normVars, urls_clean, raw_html, fetch_log, phase, runs,
                   now, domain_last_request, urls_to_fetch, pc, wake, counterVars, slots,
                   requested, log_mark>>

\* _fetch_with_playwright_async has returned pw_html[i] to fetch_url_async:
\* l.323-329, l.350-358, l.376-385
BrowserReturn(i) ==
    /\ phase = "fetching"
    /\ pc[i] \in PwSites
    /\ pw_step[i] = "return"
    /\ SetStep(i, "idle", None)
    /\ CASE pc[i] = "pw_first" ->
                IF Truthy(pw_html[i])
                THEN /\ StoreAndLog(i, pw_html[i])
                     /\ UNCHANGED requested
                ELSE /\ pc' = [pc EXCEPT ![i] = "get"]
                     /\ requested' = requested \cup {<<UrlOf(i), "direct">>}
                     /\ UNCHANGED <<raw_html, fetch_log, success_count, error_count>>
         [] pc[i] = "pw_blocked" ->
                /\ IF Truthy(pw_html[i]) THEN StoreAndLog(i, pw_html[i]) ELSE LogOnly(i, "error")
                /\ UNCHANGED requested
         [] pc[i] = "pw_denied" ->
                /\ IF Truthy(pw_html[i]) /\ pw_html[i] # "access denied"
                   THEN StoreAndLog(i, pw_html[i])
                   ELSE LogOnly(i, "error")
                /\ UNCHANGED requested
    /\ UNCHANGED <<playwright, browser, live_drivers, live_browsers, contexts>>
    /\ UNCHANGED <<configVars, collectorVars, normVars, urls_clean, phase, runs, now, domain_last_request,
                   urls_to_fetch, wake, completed, slots, log_mark>>

\* asyncio.gather returned: _close_playwright_async (l.148-175, called l.634
\* and l.724) closes the contexts of self.browser and self.browser, and stops
\* self.playwright, which ends the browser of that driver; then the process
\* ends
CloseAndEnd ==
    /\ phase = "fetching"
    /\ \A i \in DOMAIN pc : pc[i] = "done"
    /\ live_browsers' = live_browsers \ {browser, playwright}
    /\ live_drivers' = live_drivers \ {playwright}
    /\ contexts' = {c \in contexts : c[2] \notin {browser, playwright}}
    /\ playwright' = NoHandle
    /\ browser' = NoHandle
    /\ EndProcess
    /\ UNCHANGED <<pw_step, pw_html>>
    /\ UNCHANGED <<configVars, collectorVars, normVars, urls_clean, raw_html, fetch_log, runs, now>>

NextBrowser ==
    \/ StartRun
    \/ \E i \in DOMAIN pc : Acquire(i)
    \/ \E i \in DOMAIN pc : WakeUp(i)
    \/ \E i \in DOMAIN pc : CallHeadless(i)
    \/ \E i \in DOMAIN pc : Started(i)
    \/ \E i \in DOMAIN pc : Launched(i)
    \/ \E i \in DOMAIN pc : ContextReady(i)
    \/ \E i \in DOMAIN pc : Navigated(i)
    \/ \E i \in DOMAIN pc : BrowserReturn(i)
    \/ \E i \in DOMAIN pc : GetResponse(i)
    \/ \E i \in DOMAIN pc : ReadBody(i)
    \/ CloseAndEnd
    \/ Tick

SpecBrowser == InitBrowser /\ [][NextBrowser]_vars

\* C22: when _fetch_with_playwright_async is about to return, on the normal
\* path or after an exception, no context that this call created is open.
C22_ContextClosedOnReturn ==
    \A i \in DOMAIN pc : pw_step[i] = "return" => OwnContexts(i) = {}

\* C23: when the run has returned, no browser and no driver that was started
\* during the run is still running.
C23_AllBrowsersClosedAtExit ==
    phase = "idle" => live_browsers = {} /\ live_drivers = {}

\* C29: at most one driver is started and at most one browser is launched in
\* a run, however many workers reach the headless strategy together.
C29_OneBrowserPerRun ==
    Cardinality(live_drivers) <= 1 /\ Cardinality(live_browsers) <= 1

(***************************************************************************)
(* The run is cancelled: on an interrupt asyncio.run cancels the main      *)
(* task, asyncio.gather cancels every worker, and each worker gets         *)
(* CancelledError at the await where it is suspended (the semaphore, the   *)
(* rate limiter's sleep, session.get, response.read, the headless          *)
(* browser). CancelledError is not an Exception, so no handler of          *)
(* fetch_url_async catches it; the file write and _save_fetch_log are      *)
(* synchronous code between two awaits and are not interrupted.            *)
(***************************************************************************)
\* a cancellation that cuts a worker inside its file write
CancelRunInWrite ==
    /\ phase = "fetching"
    /\ \E i \in DOMAIN pc :
        /\ pc[i] \notin {"waiting", "done"}
        /\ raw_html' = [raw_html EXCEPT ![_get_file_path(UrlOf(i))] = Partial]
    /\ EndProcess
    /\ UNCHANGED <<configVars, browserVars, collectorVars, normVars, urls_clean, fetch_log, runs, now>>

\* every worker is cancelled where it is suspended, and main exits (l.743-745)
CancelRun ==
    /\ phase = "fetching"
    /\ EndProcess
    /\ UNCHANGED <<configVars, browserVars, collectorVars, normVars, urls_clean, raw_html, fetch_log, runs, now>>

NextCancel ==
    \/ StartRun
    \/ \E i \in DOMAIN pc : Acquire(i)
    \/ \E i \in DOMAIN pc : WakeUp(i)
    \/ \E i \in DOMAIN pc : PlaywrightFirst(i)
    \/ \E i \in DOMAIN pc : GetResponse(i)
    \/ \E i \in DOMAIN pc : ReadBody(i)
    \/ \E i \in DOMAIN pc : PlaywrightBlocked(i)
    \/ \E i \in DOMAIN pc : PlaywrightDenied(i)
    \/ EndRun
    \/ CancelRun
    \/ Tick

SpecCancel == Init /\ [][NextCancel]_vars

\* C24: whenever and however often runs are cancelled, for every URL either
\* its document is in the store, whole, and the ledger has a success row for
\* it, or there is neither a document nor a success row.
C24_CancelKeepsConsistency ==
    \A u \in UrlPool :
        /\ raw_html[_get_file_path(u)] # Partial
        /\ raw_html[_get_file_path(u)] # Absent <=> HasSuccessRow(u)

\* the first run was cancelled after it had stored and logged one URL and
\* before it had an outcome for the other
C24_Witness ==
    /\ phase = "idle" /\ runs = 1 /\ medias = {}
    /\ urls_clean = <<UrlA1, UrlC>>
    /\ fetch_log = <<LogRow(UrlA1, "success")>>
    /\ raw_html[UrlA1] = "article"
    /\ raw_html[UrlC] = Absent
====
